---- MODULE Spec2Model ----
(***************************************************************************)
(* Model of tts_tool.py (class TTSApp): the playback session driven by     *)
(* the play/pause and stop buttons, the progress monitor threads, the      *)
(* conversion worker threads and the Tk event loop's queue of callbacks.   *)
(*                                                                         *)
(* Granularity.  Every Tk callback (button command, key binding, after()   *)
(* callback) runs to completion on the UI thread, so each is one action.   *)
(* A monitor thread only reads the session fields and posts callbacks; it  *)
(* is split where the UI thread can change what it reads next.  A          *)
(* conversion worker writes session fields and widgets from its own        *)
(* thread; it is split where the UI thread can run a callback between its  *)
(* writes.  Threads have no identity the program uses, so each pool is a   *)
(* bag of thread states.                                                   *)
(*                                                                         *)
(* Next is the whole program.  SpecSession and SpecUI are Next under two   *)
(* restrictions of what the user does, each small enough to explore:       *)
(* SpecSession follows a user who types a valid text, never while a        *)
(* conversion runs, and uses every playback control; SpecUI follows a user *)
(* who types anything at any time, edits the output file name, and starts  *)
(* and stops playback but never pauses it, within one tick of the clock.   *)
(* Both begin with or without a credential in the environment.             *)
(***************************************************************************)
EXTENDS Integers, Sequences, FiniteSets, Bags, TLC

\* ------------------------------------------------------------------ bounds
MaxTime == 2          \* the wall clock runs over 0..MaxTime
NumPaths == 2         \* distinct speech files; file p holds p clock units of audio
NumMonitors == 2      \* monitor threads that can be alive at once
NumWorkers == 2       \* conversion worker threads that can be alive at once
MaxQueue == 1         \* callbacks waiting in the Tk event loop
MaxChannels == 2      \* mixer channels modelled

\* ------------------------------------------------------- program constants
CharLimit == 4096             \* the character limit of the synthesis provider
DefaultMaximum == 100         \* 'maximum' of a ttk.Progressbar nobody configured

None == 0
Paths == 1..NumPaths
TextLengths == {0, CharLimit, CharLimit + 1}
OutputFiles == {"", "speech_output.mp3"}

VARIABLES
    OPENAI_API_KEY,       \* whether the environment held a credential at import
    current_filepath,     \* None or the path of the last converted file
    playback_state,       \* "stopped", "playing", "paused"
    sound_object,         \* None or the path the loaded pygame Sound came from
    playback_start_time,  \* time.time() at the last start or resume
    paused_elapsed_time,  \* elapsed time accumulated by pauses
    progress_value,       \* the value the progress bar shows (progress_var)
    progress_maximum,     \* progress_bar['maximum']
    convert_button,       \* "normal" or "disabled"
    play_pause_button,    \* "normal" or "disabled"
    stop_button,          \* "normal" or "disabled"
    status_var,           \* the status line, by its first word
    text_input,           \* number of characters in the text box, without
                          \* the white space around them
    output_file_var,      \* the output file entry, stripped: "" or a name
    mixer,                \* pygame.mixer: channels playing and channels paused
    monitors,             \* bag of the _monitor_playback threads alive
    workers,              \* bag of the _perform_tts_conversion threads alive,
                          \* each by where it is: "call" (started, the
                          \* provider not yet asked), "request" (its request
                          \* is with the provider), "reset", "finish"
    after_queue,          \* callbacks handed to root.after(0, ...), in order
    now,                  \* the wall clock
    last_pushed           \* <<v>>: the last elapsed value a monitor pushed in
                          \* the current playback run; <<>>: none yet

vars == <<OPENAI_API_KEY, output_file_var, current_filepath, playback_state, sound_object, playback_start_time,
          paused_elapsed_time, progress_value, progress_maximum, convert_button,
          play_pause_button, stop_button, status_var, text_input, mixer,
          monitors, workers, after_queue, now, last_pushed>>

widgets == <<convert_button, play_pause_button, stop_button, status_var, text_input>>
buttons == <<convert_button, play_pause_button, stop_button>>
threads == <<monitors, workers>>

\* ------------------------------------------------------------ the adapter
\* pygame.mixer.get_busy(): a paused channel still counts as busy.
get_busy == mixer.playing + mixer.paused > 0

\* Sound.get_length() of the file at path p.
get_length(p) == p

\* Sound.play(): takes a free channel; with none free nothing is played.
MixerPlay ==
    IF mixer.playing + mixer.paused < MaxChannels
    THEN [mixer EXCEPT !.playing = @ + 1]
    ELSE mixer

\* pygame.mixer.pause(), unpause(), stop(): act on every channel.
MixerPause == [playing |-> 0, paused |-> mixer.paused + mixer.playing]
MixerUnpause == [playing |-> mixer.playing + mixer.paused, paused |-> 0]
MixerStop == [playing |-> 0, paused |-> 0]

\* ------------------------------------------------------------ the threads
\* A monitor thread: where it is in _monitor_playback, whether it was given
\* the name '_monitor_playback_thread', and the time difference it holds.
MonitorThread(pc, named, loc) == [pc |-> pc, named |-> named, loc |-> loc]

\* Every state a monitor thread can be in.
MonitorThreads ==
    {MonitorThread(pc, named, 0) : pc \in {"while", "exit"}, named \in BOOLEAN}
    \cup {MonitorThread("read_paused", named, loc) :
              named \in BOOLEAN, loc \in 0..MaxTime}

One(t) == SetToBag({t})
Replace(bag, t, u) == (bag (-) One(t)) (+) One(u)

\* threading.Thread(target=self._monitor_playback, ...).start()
SpawnMonitor(named) == monitors (+) One(MonitorThread("while", named, 0))

\* any(t.name == '_monitor_playback_thread' for t in threading.enumerate())
NamedMonitorAlive == \E t \in BagToSet(monitors) : t.named

\* Room for one more thread in the pool.
MonitorSlotFree == BagCardinality(monitors) < NumMonitors
WorkerSlotFree == BagCardinality(workers) < NumWorkers

Min(a, b) == IF a <= b THEN a ELSE b

\* _check_api_key, lines 151-154: the convert button and the status line it
\* leaves, from the ones _create_widgets made.
CheckApiKey(key, button, status) ==
    IF key
    THEN [button |-> button, status |-> status]
    ELSE [button |-> "disabled", status |-> "Critical"]

\* The state after TTSApp.__init__.  With a credential, main_gui's call of
\* _update_char_count() on the empty text box (line 410) changes nothing.
\* Without one, main_gui returns before it builds the window (lines
\* 400-406); the window then exists only for a caller that constructs
\* TTSApp itself, and this is the state that caller gets.
Init ==
    /\ OPENAI_API_KEY \in BOOLEAN
    /\ current_filepath = None
    /\ playback_state = "stopped"
    /\ sound_object = None
    /\ playback_start_time = 0
    /\ paused_elapsed_time = 0
    /\ progress_value = 0
    /\ progress_maximum = DefaultMaximum
    /\ convert_button = CheckApiKey(OPENAI_API_KEY, "normal", "Ready").button
    /\ play_pause_button = "disabled"
    /\ stop_button = "disabled"
    /\ status_var = CheckApiKey(OPENAI_API_KEY, "normal", "Ready").status
    /\ text_input = 0
    /\ output_file_var = "speech_output.mp3"
    /\ mixer = [playing |-> 0, paused |-> 0]
    /\ monitors = EmptyBag
    /\ workers = EmptyBag
    /\ after_queue = <<>>
    /\ now = 0
    /\ last_pushed = <<>>

\* ------------------------------------------------- _update_char_count
\* The text on the convert button: set once, when the button is created.
ConvertButtonText == "Convert to Speech"

\* The status line is kept by its first word: "Ready", "Converting",
\* "Saved" (Speech saved to), "Error", "Warning" (: Character count ...),
\* "Playing", "Paused", "Resumed", "Stopped", "Finished", "Critical" (Error:
\* Valid OPENAI_API_KEY is not configured), "TooLong" (Error: Text too long),
\* "NoRequest" (Error: Error: OPENAI_API_KEY is not set, or Error: Error
\* creating speech file path), "Failed" (Error: An error occurred while
\* generating speech); "Error" is Error playing audio.
\* The convert button's state and the status line after _update_char_count
\* ran on a text of n characters.
UpdateCharCount(n, button, status) ==
    IF n > CharLimit
    THEN [button |-> button, status |-> "Warning"]
    ELSE [button |-> IF /\ ConvertButtonText # "Converting..."
                        /\ button = "disabled"
                        /\ status # "Converting"
                     THEN "normal" ELSE button,
          status |-> IF status = "Warning" THEN "Ready" ELSE status]

\* <KeyRelease> in the text box: the text now has n characters.
KeyRelease(n) ==
    /\ text_input' = n
    /\ convert_button' = UpdateCharCount(n, convert_button, status_var).button
    /\ status_var' = UpdateCharCount(n, convert_button, status_var).status
    /\ UNCHANGED <<OPENAI_API_KEY, output_file_var, current_filepath, playback_state, sound_object,
                   playback_start_time, paused_elapsed_time, progress_value,
                   progress_maximum, play_pause_button, stop_button, mixer,
                   monitors, workers, after_queue, now, last_pushed>>

\* The user edits the output file entry, or picks a file with Browse...
\* (_browse_output_file, lines 251-259).
EditOutputFile(name) ==
    /\ output_file_var' = name
    /\ UNCHANGED <<OPENAI_API_KEY, current_filepath, playback_state,
                   sound_object, playback_start_time, paused_elapsed_time,
                   progress_value, progress_maximum, widgets, mixer, threads,
                   after_queue, now, last_pushed>>

\* ------------------------------------------------- _convert_tts_threaded
\* Lines 265-269: the text is too long.
ConvertTooLong ==
    /\ convert_button = "normal"
    /\ text_input > CharLimit
    /\ status_var' = "TooLong"
    /\ UNCHANGED <<OPENAI_API_KEY, output_file_var, current_filepath, playback_state, sound_object,
                   playback_start_time, paused_elapsed_time, progress_value,
                   progress_maximum, buttons, text_input, mixer, threads,
                   after_queue, now, last_pushed>>

\* Lines 270-272: no text; a warning box, nothing changes.
ConvertEmpty ==
    /\ convert_button = "normal"
    /\ text_input = 0
    /\ UNCHANGED vars

\* Lines 276-279: the output file entry is empty; a warning box, nothing
\* changes.
ConvertNoFilename ==
    /\ convert_button = "normal"
    /\ text_input > 0 /\ text_input <= CharLimit
    /\ output_file_var = ""
    /\ UNCHANGED vars

\* Lines 270-292 without lines 265-269: a text of any length is converted.
ConvertStartedUnchecked ==
    /\ convert_button = "normal"
    /\ text_input > 0
    /\ output_file_var # ""
    /\ WorkerSlotFree
    /\ status_var' = "Converting"
    /\ convert_button' = "disabled"
    /\ play_pause_button' = "disabled"
    /\ stop_button' = "disabled"
    /\ workers' = workers (+) One("call")
    /\ UNCHANGED <<OPENAI_API_KEY, output_file_var, current_filepath,
                   playback_state, sound_object, playback_start_time,
                   paused_elapsed_time, progress_value, progress_maximum,
                   text_input, mixer, monitors, after_queue, now, last_pushed>>

\* Lines 274-292: the conversion starts on a worker thread, which gets the
\* text and the file name as its arguments.
ConvertStarted ==
    /\ convert_button = "normal"
    /\ text_input > 0 /\ text_input <= CharLimit
    /\ output_file_var # ""
    /\ WorkerSlotFree
    /\ status_var' = "Converting"
    /\ convert_button' = "disabled"
    /\ play_pause_button' = "disabled"
    /\ stop_button' = "disabled"
    /\ workers' = workers (+) One("call")
    /\ UNCHANGED <<OPENAI_API_KEY, output_file_var, current_filepath, playback_state, sound_object,
                   playback_start_time, paused_elapsed_time, progress_value,
                   progress_maximum, text_input, mixer, monitors, after_queue,
                   now, last_pushed>>

\* ------------------------------------------------- _perform_tts_conversion
\* A worker that calls text_to_speech_gui again after a failure.
AfterFailureRetries == "call"

\* Where a worker goes when text_to_speech_gui returned (False, message):
\* lines 307-309 and on to line 311; it does not call again.
AfterFailure == "finish"

\* text_to_speech_gui up to its request, lines 101-120, in the worker: it
\* returns (False, message) without a request when there is no credential
\* (line 102) or the output path cannot be made (line 111), and the worker
\* runs lines 307-309; otherwise the request goes to the provider.
TextToSpeechGuiCall ==
    /\ BagIn("call", workers)
    /\ \E path_made \in BOOLEAN :
         IF OPENAI_API_KEY /\ path_made
         THEN /\ workers' = Replace(workers, "call", "request")
              /\ UNCHANGED <<current_filepath, status_var>>
         ELSE /\ current_filepath' = None
              /\ status_var' = "NoRequest"
              /\ workers' = Replace(workers, "call", AfterFailure)
    /\ UNCHANGED <<OPENAI_API_KEY, output_file_var, playback_state, sound_object,
                   playback_start_time, paused_elapsed_time, progress_value,
                   progress_maximum, buttons, text_input, mixer, monitors,
                   after_queue, now, last_pushed>>

\* The provider answers and text_to_speech_gui returns (True, path), or the
\* request or the download raises and it returns (False, message), lines
\* 113-124; the worker then runs lines 297-300, or 307-309.
ConversionReturns ==
    /\ BagIn("request", workers)
    /\ \E r \in Paths \cup {None} :
         /\ current_filepath' = r
         /\ IF r # None
            THEN /\ status_var' = "Saved"
                 /\ play_pause_button' = "normal"
                 /\ stop_button' = "normal"
                 /\ workers' = Replace(workers, "request", "reset")
            ELSE /\ status_var' = "Failed"
                 /\ UNCHANGED <<play_pause_button, stop_button>>
                 /\ workers' = Replace(workers, "request", AfterFailure)
    /\ UNCHANGED <<OPENAI_API_KEY, output_file_var, playback_state, sound_object, playback_start_time,
                   paused_elapsed_time, progress_value, progress_maximum,
                   convert_button, text_input, mixer, monitors, after_queue,
                   now, last_pushed>>

\* Lines 301-305 of a successful conversion.
ConversionReset ==
    /\ BagIn("reset", workers)
    /\ playback_state' = "stopped"
    /\ progress_value' = 0
    /\ sound_object' = None
    /\ last_pushed' = <<>>
    /\ workers' = Replace(workers, "reset", "finish")
    /\ UNCHANGED <<OPENAI_API_KEY, output_file_var, current_filepath, playback_start_time, paused_elapsed_time,
                   progress_maximum, widgets, mixer, monitors, after_queue, now>>

\* Lines 311-312, after either outcome; the thread ends.
ConversionFinish ==
    /\ BagIn("finish", workers)
    /\ convert_button' = UpdateCharCount(text_input, "normal", status_var).button
    /\ status_var' = UpdateCharCount(text_input, "normal", status_var).status
    /\ workers' = workers (-) One("finish")
    /\ UNCHANGED <<OPENAI_API_KEY, output_file_var, current_filepath, playback_state, sound_object,
                   playback_start_time, paused_elapsed_time, progress_value,
                   progress_maximum, play_pause_button, stop_button, text_input,
                   mixer, monitors, after_queue, now, last_pushed>>

\* ------------------------------------------------- _toggle_play_pause
\* Line 342 without its last term: the pause forgets earlier intervals.
PausedElapsedDropsPrior(t, start, paused) == t - start

\* Line 342: the elapsed time kept across a pause that happens at time t.
PausedElapsed(t, start, paused) == t - start + paused

\* Line 348: the start time a resume at time t records.
ResumeStartTime(t, start) == t

\* Line 349 assigning "stopped": a resume that ends the session.
ToggleTargetResumeStops(state) ==
    CASE state = "stopped" -> "playing"
      [] state = "playing" -> "paused"
      [] state = "paused" -> "stopped"

\* Lines 330, 343 and 349: the state each branch of the toggle moves to.
ToggleTarget(state) ==
    CASE state = "stopped" -> "playing"
      [] state = "playing" -> "paused"
      [] state = "paused" -> "playing"

\* Lines 315-317: no audio file; an error box, nothing changes.
ToggleNoFile ==
    /\ play_pause_button = "normal"
    /\ current_filepath = None
    /\ UNCHANGED vars

\* Lines 319-333 without line 326: a start that keeps the elapsed time.
ToggleStartKeepsElapsed ==
    /\ play_pause_button = "normal"
    /\ current_filepath # None
    /\ playback_state = "stopped"
    /\ MonitorSlotFree
    /\ LET sound == IF sound_object = None THEN current_filepath ELSE sound_object
       IN  /\ sound_object' = sound
           /\ progress_maximum' = get_length(sound)
    /\ progress_value' = 0
    /\ mixer' = MixerPlay
    /\ playback_start_time' = now
    /\ playback_state' = ToggleTarget(playback_state)
    /\ status_var' = "Playing"
    /\ monitors' = SpawnMonitor(FALSE)
    /\ last_pushed' = <<>>
    /\ UNCHANGED <<OPENAI_API_KEY, output_file_var, current_filepath,
                   paused_elapsed_time, buttons, text_input, workers,
                   after_queue, now>>

\* Lines 319-333: the sound loads and plays.
ToggleStart ==
    /\ play_pause_button = "normal"
    /\ current_filepath # None
    /\ playback_state = "stopped"
    /\ MonitorSlotFree
    /\ LET sound == IF sound_object = None THEN current_filepath ELSE sound_object
       IN  /\ sound_object' = sound
           /\ progress_maximum' = get_length(sound)
    /\ progress_value' = 0
    /\ paused_elapsed_time' = 0
    /\ mixer' = MixerPlay
    /\ playback_start_time' = now
    /\ playback_state' = ToggleTarget(playback_state)
    /\ status_var' = "Playing"
    /\ monitors' = SpawnMonitor(FALSE)
    /\ last_pushed' = <<>>
    /\ UNCHANGED <<OPENAI_API_KEY, output_file_var, current_filepath, buttons, text_input, workers, after_queue, now>>

\* Lines 319-339 when pygame raises: at "load" in pygame.mixer.Sound(...)
\* (line 322, only when no sound is loaded yet), at "play" in Sound.play()
\* (line 328, after lines 324-326 ran).
ToggleStartFails(at) ==
    /\ play_pause_button = "normal"
    /\ current_filepath # None
    /\ playback_state = "stopped"
    /\ \/ /\ at = "load"
          /\ sound_object = None
          /\ UNCHANGED <<sound_object, progress_maximum, paused_elapsed_time>>
       \/ /\ at = "play"
          /\ LET sound == IF sound_object = None THEN current_filepath
                          ELSE sound_object
             IN  /\ sound_object' = sound
                 /\ progress_maximum' = get_length(sound)
          /\ paused_elapsed_time' = 0
    /\ playback_state' = "stopped"
    /\ progress_value' = 0
    /\ status_var' = "Error"
    /\ last_pushed' = <<>>
    /\ UNCHANGED <<OPENAI_API_KEY, output_file_var, current_filepath, playback_start_time, buttons, text_input,
                   mixer, threads, after_queue, now>>

\* Lines 340-345.
TogglePause ==
    /\ play_pause_button = "normal"
    /\ current_filepath # None
    /\ playback_state = "playing"
    /\ mixer' = MixerPause
    /\ paused_elapsed_time' =
           PausedElapsed(now, playback_start_time, paused_elapsed_time)
    /\ playback_state' = ToggleTarget(playback_state)
    /\ status_var' = "Paused"
    /\ UNCHANGED <<OPENAI_API_KEY, output_file_var, current_filepath, sound_object, playback_start_time,
                   progress_value, progress_maximum, buttons, text_input,
                   threads, after_queue, now, last_pushed>>

\* Lines 346-353.
ToggleResume ==
    /\ play_pause_button = "normal"
    /\ current_filepath # None
    /\ playback_state = "paused"
    /\ NamedMonitorAlive \/ MonitorSlotFree
    /\ mixer' = MixerUnpause
    /\ playback_start_time' = ResumeStartTime(now, playback_start_time)
    /\ playback_state' = ToggleTarget(playback_state)
    /\ status_var' = "Resumed"
    /\ monitors' = IF NamedMonitorAlive THEN monitors ELSE SpawnMonitor(TRUE)
    /\ UNCHANGED <<OPENAI_API_KEY, output_file_var, current_filepath, sound_object, paused_elapsed_time,
                   progress_value, progress_maximum, buttons, text_input,
                   workers, after_queue, now, last_pushed>>

\* The play/pause button's command; a disabled button runs nothing.
TogglePlayPause ==
    \/ ToggleNoFile
    \/ ToggleStart
    \/ \E at \in {"load", "play"} : ToggleStartFails(at)
    \/ TogglePause
    \/ ToggleResume

\* ------------------------------------------------- _stop_audio
\* Line 363 missing: stop() keeps the accumulated elapsed time.
StoppedSessionKeepsElapsed ==
    [playback_state |-> "stopped", paused_elapsed_time |-> paused_elapsed_time]

\* Lines 359 and 363: the session fields stop() leaves.
StoppedSession == [playback_state |-> "stopped", paused_elapsed_time |-> 0]

\* The stop button's command; a disabled button runs nothing.
StopAudio ==
    /\ stop_button = "normal"
    /\ IF sound_object # None /\ get_busy
       THEN mixer' = MixerStop /\ sound_object' = None
       ELSE UNCHANGED <<mixer, sound_object>>
    /\ playback_state' = StoppedSession.playback_state
    /\ play_pause_button' = IF current_filepath # None THEN "normal" ELSE "disabled"
    /\ stop_button' = IF current_filepath # None THEN "normal" ELSE "disabled"
    /\ progress_value' = 0
    /\ paused_elapsed_time' = StoppedSession.paused_elapsed_time
    /\ status_var' = "Stopped"
    /\ last_pushed' = <<>>
    /\ UNCHANGED <<OPENAI_API_KEY, output_file_var, current_filepath, playback_start_time, progress_maximum,
                   convert_button, text_input, threads, after_queue, now>>

\* ------------------------------------------------- _monitor_playback
\* Line 371 and, when the loop goes on, line 372's time.time() minus
\* self.playback_start_time.
MonitorWhile(t) ==
        /\ BagIn(t, monitors)
        /\ t.pc = "while"
        /\ monitors' = Replace(monitors, t,
               IF playback_state = "playing" /\ get_busy
               THEN MonitorThread("read_paused", t.named, now - playback_start_time)
               ELSE MonitorThread("exit", t.named, 0))
        /\ UNCHANGED <<OPENAI_API_KEY, output_file_var, current_filepath, playback_state, sound_object,
                       playback_start_time, paused_elapsed_time, progress_value,
                       progress_maximum, widgets, mixer, workers, after_queue,
                       now, last_pushed>>

\* Lines 372-376: the elapsed value the monitor pushes, from the difference
\* it holds, the paused time and the bar's maximum as it reads them.
CurrentElapsedSec(diff, paused, max_val) == Min(diff + paused, max_val)

\* Lines 372-379: the read of self.paused_elapsed_time, the clamp, and
\* root.after(0, self.progress_var.set, current_elapsed_sec).
MonitorPush(t) ==
        /\ BagIn(t, monitors)
        /\ t.pc = "read_paused"
        /\ Len(after_queue) < MaxQueue
        /\ LET v == CurrentElapsedSec(t.loc, paused_elapsed_time, progress_maximum)
           IN  /\ after_queue' = Append(after_queue, [f |-> "set", v |-> v])
               /\ last_pushed' = IF playback_state = "stopped" THEN <<>> ELSE <<v>>
        /\ monitors' = Replace(monitors, t, MonitorThread("while", t.named, 0))
        /\ UNCHANGED <<OPENAI_API_KEY, output_file_var, current_filepath, playback_state, sound_object,
                       playback_start_time, paused_elapsed_time, progress_value,
                       progress_maximum, widgets, mixer, workers, now>>

\* Lines 382-383; the thread ends.
MonitorExit(t) ==
        /\ BagIn(t, monitors)
        /\ t.pc = "exit"
        /\ IF playback_state = "playing" /\ ~get_busy
           THEN /\ Len(after_queue) < MaxQueue
                /\ after_queue' = Append(after_queue, [f |-> "finished", v |-> 0])
           ELSE UNCHANGED after_queue
        /\ monitors' = monitors (-) One(t)
        /\ UNCHANGED <<OPENAI_API_KEY, output_file_var, current_filepath, playback_state, sound_object,
                       playback_start_time, paused_elapsed_time, progress_value,
                       progress_maximum, widgets, mixer, workers, now,
                       last_pushed>>

\* ------------------------------------------------- the Tk event loop
\* self.progress_var.set(v), as queued by a monitor.
ProgressVarSet(v) ==
    /\ progress_value' = v
    /\ UNCHANGED <<OPENAI_API_KEY, output_file_var, current_filepath, playback_state, sound_object,
                   playback_start_time, paused_elapsed_time, progress_maximum,
                   widgets, mixer, threads, now, last_pushed>>

\* _playback_finished_gui_update, lines 385-393.
PlaybackFinishedGuiUpdate ==
    IF playback_state = "playing"
    THEN /\ playback_state' = "stopped"
         /\ progress_value' = progress_maximum
         /\ paused_elapsed_time' = 0
         /\ status_var' = IF current_filepath # None THEN "Finished" ELSE status_var
         /\ last_pushed' = <<>>
         /\ UNCHANGED <<OPENAI_API_KEY, output_file_var, current_filepath, sound_object, playback_start_time,
                        progress_maximum, buttons, text_input, mixer, threads, now>>
    ELSE UNCHANGED <<OPENAI_API_KEY, output_file_var, current_filepath, playback_state, sound_object,
                     playback_start_time, paused_elapsed_time, progress_value,
                     progress_maximum, widgets, mixer, threads, now, last_pushed>>

\* The event loop runs the oldest queued callback.
RunCallback ==
    /\ after_queue # <<>>
    /\ after_queue' = Tail(after_queue)
    /\ IF Head(after_queue).f = "set"
       THEN ProgressVarSet(Head(after_queue).v)
       ELSE PlaybackFinishedGuiUpdate

\* ------------------------------------------------- the environment
\* A channel reaches the end of its sound.
ChannelEnds ==
    /\ mixer.playing > 0
    /\ mixer' = [mixer EXCEPT !.playing = @ - 1]
    /\ UNCHANGED <<OPENAI_API_KEY, output_file_var, current_filepath, playback_state, sound_object,
                   playback_start_time, paused_elapsed_time, progress_value,
                   progress_maximum, widgets, threads, after_queue, now,
                   last_pushed>>

\* time.time() advances.
Tick ==
    /\ now < MaxTime
    /\ now' = now + 1
    /\ UNCHANGED <<OPENAI_API_KEY, output_file_var, current_filepath, playback_state, sound_object,
                   playback_start_time, paused_elapsed_time, progress_value,
                   progress_maximum, widgets, mixer, threads, after_queue,
                   last_pushed>>

MonitorStep(t) == MonitorWhile(t) \/ MonitorPush(t) \/ MonitorExit(t)

WorkerStep ==
    \/ TextToSpeechGuiCall
    \/ ConversionReturns
    \/ ConversionReset
    \/ ConversionFinish

\* The whole program.
Next ==
    \/ \E n \in TextLengths : KeyRelease(n)
    \/ \E name \in OutputFiles : EditOutputFile(name)
    \/ ConvertTooLong
    \/ ConvertEmpty
    \/ ConvertNoFilename
    \/ ConvertStarted
    \/ TogglePlayPause
    \/ StopAudio
    \/ RunCallback
    \/ \E t \in BagToSet(monitors) : MonitorStep(t)
    \/ WorkerStep
    \/ ChannelEnds
    \/ Tick

Spec == Init /\ [][Next]_vars

\* ------------------------------------------------- the playback session
\* The user types a valid text while no conversion runs, converts, and uses
\* play, pause, resume and stop at will.  Conversions then run one at a
\* time, so the play button is never enabled without a file.
NextSession ==
    \/ workers = EmptyBag /\ KeyRelease(CharLimit)
    \/ ConvertStarted
    \/ ToggleStart
    \/ \E at \in {"load", "play"} : ToggleStartFails(at)
    \/ TogglePause
    \/ ToggleResume
    \/ StopAudio
    \/ RunCallback
    \/ \E t \in BagToSet(monitors) : MonitorStep(t)
    \/ WorkerStep
    \/ ChannelEnds
    \/ Tick

SpecSession == Init /\ [][NextSession]_vars

\* Scheduling: a thread that can take its next step takes it, and the event
\* loop runs a callback that waits in its queue.  The user, the provider's
\* answer, the sound's end and the clock owe nothing.
Scheduling ==
    /\ \A t \in MonitorThreads : WF_vars(MonitorStep(t))
    /\ WF_vars(RunCallback)
    /\ WF_vars(TextToSpeechGuiCall)
    /\ WF_vars(ConversionReset)
    /\ WF_vars(ConversionFinish)

FairSession == SpecSession /\ Scheduling

\* ------------------------------------------------- conversions and the UI
\* The user types anything at any time, converts, starts and stops
\* playback, and never pauses; the clock does not tick meanwhile.
NextUI ==
    \/ \E n \in TextLengths : KeyRelease(n)
    \/ \E name \in OutputFiles : EditOutputFile(name)
    \/ ConvertTooLong
    \/ ConvertEmpty
    \/ ConvertNoFilename
    \/ ConvertStarted
    \/ ToggleNoFile
    \/ ToggleStart
    \/ \E at \in {"load", "play"} : ToggleStartFails(at)
    \/ StopAudio
    \/ RunCallback
    \/ \E t \in BagToSet(monitors) : MonitorStep(t)
    \/ WorkerStep
    \/ ChannelEnds

SpecUI == Init /\ [][NextUI]_vars

(***************************************************************************)
(* The claims.                                                             *)
(***************************************************************************)

\* Monitor threads inside the loop body (past line 371's test).
InLoopBody == {t \in BagToSet(monitors) : t.pc = "read_paused"}
LoopBodyCount ==
    BagCardinality([t \in InLoopBody |-> CopiesIn(t, monitors)])

\* C1: at most one Progress Monitor Loop is active at any time: no two
\* monitor threads are inside the loop at once, whatever the sequence of
\* start, pause, resume and stop.
C1_AtMostOneMonitorLoop == LoopBodyCount <= 1

\* C2: natural finish is always detected: once the adapter is idle while the
\* session is Playing, the session leaves Playing (it becomes Stopped by the
\* natural-finish transition, unless the user acts first).
C2_NaturalFinishDetected ==
    (playback_state = "playing" /\ ~get_busy) ~> (playback_state # "playing")

\* C3: with an audio file available, the toggle makes exactly the transition
\* its current state determines: Stopped to Playing when the adapter accepts
\* (Stopped stays Stopped when pygame raises and the status line reports the
\* error), Playing to Paused, Paused to Playing, and nothing else.
C3_ToggleOneTransition ==
    [][(current_filepath # None /\ TogglePlayPause) =>
        \/ /\ playback_state = "stopped"
           /\ playback_state' = IF status_var' = "Error" THEN "stopped"
                                ELSE "playing"
        \/ playback_state = "playing" /\ playback_state' = "paused"
        \/ playback_state = "paused" /\ playback_state' = "playing"]_vars

\* C3 witness: a session that was started, paused and resumed.
C3_Witness ==
    /\ playback_state = "playing"
    /\ status_var = "Resumed"
    /\ current_filepath # None

\* C4: stop, invoked in any session state, leaves the session Stopped with
\* the accumulated elapsed time 0.
C4_StopResets ==
    [][StopAudio => playback_state' = "stopped" /\ paused_elapsed_time' = 0]_vars

\* C4 witness: stop ran on a session that had been paused and resumed with
\* elapsed time accumulated, while its monitor was still alive.
C4_Witness ==
    /\ status_var = "Stopped"
    /\ playback_state = "stopped"
    /\ paused_elapsed_time = 0
    /\ NamedMonitorAlive

\* C5: after stop() the progress display is 0 and stays 0 until the next
\* start: while the status line still reads "Stopped..." (nothing but timer
\* callbacks, thread steps and key presses happened since), the bar shows 0.
C5_ProgressZeroAfterStop == status_var = "Stopped" => progress_value = 0

\* The elapsed time of the session, as the data model defines it.
Elapsed ==
    IF playback_state = "playing"
    THEN paused_elapsed_time + (now - playback_start_time)
    ELSE paused_elapsed_time

\* C6: pause followed by resume preserves elapsed time: the pause keeps it,
\* nothing changes it while Paused however long that lasts, and the resume
\* keeps it.
C6_PauseResumePreservesElapsed ==
    [][(\/ TogglePause
        \/ ToggleResume
        \/ playback_state = "paused" /\ playback_state' = "paused")
       => Elapsed' = Elapsed]_vars

\* C6 witness: a session resumed at a later time than it was paused, with
\* elapsed time accumulated before the pause.
C6_Witness ==
    /\ playback_state = "playing"
    /\ status_var = "Resumed"
    /\ paused_elapsed_time > 0
    /\ playback_start_time = MaxTime
    /\ paused_elapsed_time < playback_start_time

\* A monitor pushes a value in this step.
MonitorPushes ==
    /\ Len(after_queue') > Len(after_queue)
    /\ after_queue'[Len(after_queue')].f = "set"

\* C7: between a start and the next stop or natural finish, the values the
\* monitor pushes never decrease, and a value pushed while Paused is the
\* frozen elapsed time.
C7_PushedElapsedMonotonic ==
    [][(MonitorPushes /\ playback_state # "stopped") =>
        LET v == after_queue'[Len(after_queue')].v
        IN  /\ last_pushed # <<>> => v >= last_pushed[1]
            /\ playback_state = "paused" =>
                   v = Min(paused_elapsed_time, progress_maximum)]_vars

\* C8: every value the progress display shows lies in [0, durationTotal] of
\* the audio currently loaded.
C8_ProgressWithinDuration ==
    sound_object # None =>
        0 <= progress_value /\ progress_value <= get_length(sound_object)

\* A click on the play button now would be a start with no audio file: the
\* handler returns at line 317 and the state stays as it is.
StartWithoutFile ==
    /\ play_pause_button = "normal"
    /\ current_filepath = None
    /\ playback_state = "stopped"

\* C9: a start happens only with an audio file available, and a start that
\* fails, for want of a file or because the adapter rejects the file, leaves
\* the session Stopped, the progress display at 0 and the monitor threads as
\* they were.
C9_FailedStartLeavesStopped ==
    /\ [](StartWithoutFile => progress_value = 0)
    /\ [][/\ (playback_state = "stopped" /\ playback_state' = "playing")
                => current_filepath # None
          /\ (\E at \in {"load", "play"} : ToggleStartFails(at))
                => /\ playback_state' = "stopped"
                   /\ progress_value' = 0
                   /\ monitors' = monitors]_vars

\* Workers inside text_to_speech_gui.
InFlight == CopiesIn("call", workers) + CopiesIn("request", workers)

\* C10: while a synthesis call is in flight the convert button stays
\* disabled, so at most one synthesis call is in flight.
C10_TriggerDisabledInFlight ==
    /\ InFlight > 0 => convert_button = "disabled"
    /\ InFlight <= 1

\* A worker thread starts, and a request reaches the provider, in this step.
WorkerStarts == CopiesIn("call", workers') > CopiesIn("call", workers)
RequestIssued == CopiesIn("request", workers') > CopiesIn("request", workers)

\* C11: the provider is asked only on validated input: a worker starts only
\* on a text of 1 to 4096 characters and a non-empty output file name, a
\* request comes only from a worker so started, and a click on the convert
\* button with a text too long, no text or no file name starts no worker and
\* leaves the convert, play and stop buttons as they were.
C11_RequestOnlyOnValidInput ==
    [][/\ WorkerStarts =>
            /\ text_input > 0 /\ text_input <= CharLimit
            /\ output_file_var # ""
       /\ RequestIssued =>
            CopiesIn("call", workers') < CopiesIn("call", workers)
       /\ (ConvertTooLong \/ ConvertEmpty \/ ConvertNoFilename) =>
            UNCHANGED <<workers, buttons>>]_vars

\* C11 witness: a text over the limit was rejected (the status line says so)
\* with no file name in the entry, and no worker runs.
C11_Witness ==
    /\ status_var = "TooLong"
    /\ text_input > CharLimit
    /\ output_file_var = ""
    /\ workers = EmptyBag
    /\ current_filepath # None

C13_BackgroundOnlyHandsOff ==
    [][(WorkerStep \/ \E t \in BagToSet(monitors) : MonitorStep(t)) =>
         UNCHANGED <<widgets, progress_value, progress_maximum,
                     current_filepath, playback_state, sound_object,
                     playback_start_time, paused_elapsed_time>>]_vars

\* The provider call of a worker fails in this step: text_to_speech_gui
\* returns (False, message) from line 124.
ProviderFails == ConversionReturns /\ current_filepath' = None

\* C14: a failure of the provider call comes back as a (False, message)
\* result that the worker handles and survives: its one request is over and
\* it makes no other, no audio file is available, and the worker goes on to
\* its last lines, which enable the convert button; a worker starts only on
\* a click, and with no audio file available no start happens.
C14_FailureTaggedNoRetry ==
    [][/\ ProviderFails =>
            /\ CopiesIn("request", workers') = CopiesIn("request", workers) - 1
            /\ CopiesIn("call", workers') = CopiesIn("call", workers)
            /\ CopiesIn("finish", workers') = CopiesIn("finish", workers) + 1
            /\ current_filepath' = None
       /\ WorkerStarts => ConvertStarted
       /\ current_filepath = None =>
            ~(playback_state = "stopped" /\ playback_state' = "playing")
       /\ ConversionFinish => convert_button' = "normal"]_vars

\* C14 witness: the provider failed a conversion made after an earlier one
\* had succeeded and been played; the worker has ended.
C14_Witness ==
    /\ status_var = "Failed"
    /\ current_filepath = None
    /\ sound_object # None
    /\ convert_button = "normal"
    /\ workers = EmptyBag

\* C15: at most one sound is on the adapter, playing or paused, at any time:
\* a start never plays a sound while an earlier one is still busy.
C15_AtMostOneSoundBusy == mixer.playing + mixer.paused <= 1

\* C16: when a conversion completes successfully the playback session is
\* reset from whatever state it was in: Stopped, accumulated elapsed time 0,
\* progress display 0, and no sound loaded, so that the next start loads the
\* new file.
C16_ConversionResetsSession ==
    [][ConversionReset =>
         /\ playback_state' = "stopped"
         /\ paused_elapsed_time' = 0
         /\ progress_value' = 0
         /\ sound_object' = None]_vars

\* C17: stop silences the adapter at once: after stop() no sound is playing
\* or paused on it, whatever happened before.
C17_StopSilencesAdapter == [][StopAudio => ~get_busy']_vars

\* The event loop runs a queued _playback_finished_gui_update in this step.
NaturalFinishRuns == RunCallback /\ Head(after_queue).f = "finished"

\* C18: a playback run that ends because the adapter went idle while the
\* session was Playing gets its natural-finish transition exactly once: the
\* session does leave Playing, the callback that finds it Playing moves it to
\* Stopped with the bar at its maximum, a callback that finds it already
\* Stopped or Paused changes nothing, and a monitor that reaches its last
\* lines while the session is Paused or Stopped posts no callback.
C18_NaturalFinishExactlyOnce ==
    /\ []((playback_state = "playing" /\ ~get_busy)
            => <>(playback_state \in {"stopped", "paused"}))
    /\ [][/\ (NaturalFinishRuns /\ playback_state = "playing") =>
                /\ playback_state' = "stopped"
                /\ progress_value' = progress_maximum
          /\ (NaturalFinishRuns /\ playback_state # "playing") =>
                UNCHANGED <<playback_state, progress_value>>
          /\ ((\E t \in BagToSet(monitors) : MonitorExit(t))
                 /\ playback_state # "playing") =>
                after_queue' = after_queue]_vars

\* C19: every start begins a fresh session whatever came before: on a step
\* from Stopped to Playing the accumulated elapsed time is 0, the start time
\* is the current time, the bar shows 0 of a maximum that is the loaded
\* sound's duration, and one more monitor thread runs, at the top of its
\* loop.
C19_StartBeginsFreshSession ==
    [][(playback_state = "stopped" /\ playback_state' = "playing") =>
         /\ paused_elapsed_time' = 0
         /\ playback_start_time' = now
         /\ progress_value' = 0
         /\ sound_object' # None
         /\ progress_maximum' = get_length(sound_object')
         /\ BagCardinality(monitors') = BagCardinality(monitors) + 1
         /\ CopiesIn(MonitorThread("while", FALSE, 0), monitors')
              = CopiesIn(MonitorThread("while", FALSE, 0), monitors) + 1]_vars

\* C19 witness: a session started late, after an earlier one that was paused
\* and resumed and whose named monitor is still alive.
C19_Witness ==
    /\ playback_state = "playing"
    /\ status_var = "Playing"
    /\ playback_start_time = MaxTime
    /\ paused_elapsed_time = 0
    /\ progress_value = 0
    /\ NamedMonitorAlive

\* C20: the natural-finish transition ends only the run in which the adapter
\* was seen idle: a queued _playback_finished_gui_update never moves the
\* session from Playing to Stopped while the adapter is busy with a run
\* started since.
C20_NaturalFinishEndsOwnRun ==
    [][(NaturalFinishRuns /\ playback_state = "playing"
          /\ playback_state' = "stopped") => ~get_busy]_vars

====
